---- MODULE Spec2Model ----
(***************************************************************************)
(* Media file store of rslib/src/media/files.rs: filename normalization,   *)
(* hash-suffixed unique names, the unique-name writer and the AnkiWeb       *)
(* ingestion adapter.                                                       *)
(*                                                                          *)
(* A Rust &str is modelled as the sequence of its UTF-8 bytes (0..255), so  *)
(* that str::len, is_char_boundary and byte-index slicing mean what they    *)
(* mean in the source.  The media folder is a function from file names to   *)
(* file contents.                                                           *)
(***************************************************************************)
EXTENDS Integers, Sequences, FiniteSets, TLC

MAX_FILENAME_LENGTH == 120

\* ---------------------------------------------------------------- bounds
\* longest run of fill characters in a generated input name
MaxFill == 125
\* number of writer / adapter calls made on the folder
MaxCalls == 3

\* ------------------------------------------------------- string helpers
Repeat(c, n) == [i \in 1..(n * Len(c)) |-> c[((i - 1) % Len(c)) + 1]]

\* continuation bytes are 10xxxxxx
IsContinuation(b) == b >= 128 /\ b < 192

\* str::is_char_boundary(index), index counted from 0
is_char_boundary(s, index) ==
    \/ index = 0
    \/ index = Len(s)
    \/ (index < Len(s) /\ ~IsContinuation(s[index + 1]))

\* number of continuation bytes a lead byte announces
Utf8Width(b) ==
    IF b < 128 THEN 1
    ELSE IF b >= 192 /\ b < 224 THEN 2
    ELSE IF b >= 224 /\ b < 240 THEN 3
    ELSE IF b >= 240 /\ b < 248 THEN 4
    ELSE 0

\* s is a whole number of well-formed UTF-8 characters (what &str guarantees)
ValidUtf8(s) ==
    \A i \in 1..Len(s) :
        IF IsContinuation(s[i])
        THEN \E j \in 1..3 : /\ i - j >= 1
                             /\ ~IsContinuation(s[i - j])
                             /\ Utf8Width(s[i - j]) > j
                             /\ \A k \in 1..(j - 1) : IsContinuation(s[i - k])
        ELSE /\ Utf8Width(s[i]) >= 1
             /\ i + Utf8Width(s[i]) - 1 <= Len(s)
             /\ \A k \in 1..(Utf8Width(s[i]) - 1) : IsContinuation(s[i + k])

\* ------------------------------------------------------- NFC (line 70-72)
\* Within the modelled alphabet the only canonically composable pair is
\* 'e' (0x65) followed by U+0301 (CC 81), which composes to U+00E9 (C3 A9);
\* every other modelled character is its own NFC form.
Composes(s, i) ==
    /\ i >= 1
    /\ i + 2 <= Len(s)
    /\ s[i] = 101 /\ s[i + 1] = 204 /\ s[i + 2] = 129

nfc(s) ==
    LET marked == [i \in 1..Len(s) |->
                     IF Composes(s, i) THEN 195
                     ELSE IF Composes(s, i - 1) THEN 169
                     ELSE IF Composes(s, i - 2) THEN -1
                     ELSE s[i]]
    IN SelectSeq(marked, LAMBDA b : b # -1)

is_nfc(s) == \A i \in 1..Len(s) : ~Composes(s, i)

\* ------------------------------------------- disallowed_char (line 53-59)
disallowed_char(b) ==
    \/ b \in {91, 93, 60, 62, 58, 34, 47, 63, 42, 94, 92, 124}
    \/ b <= 31
    \/ b = 127

\* ------------------------------------- WINDOWS_DEVICE_NAME (line 26-39)
ToLower(b) == IF b >= 65 /\ b <= 90 THEN b + 32 ELSE b

LowerPrefix(s, n) == [i \in 1..n |-> ToLower(s[i])]

\* length of capture group 1 when the pattern matches, 0 when it does not
WINDOWS_DEVICE_NAME(s) ==
    IF /\ Len(s) >= 3
       /\ LowerPrefix(s, 3) \in {<<99, 111, 110>>, <<112, 114, 110>>,
                                 <<97, 117, 120>>, <<110, 117, 108>>}
       /\ (Len(s) = 3 \/ s[4] = 46)
    THEN 3
    ELSE IF /\ Len(s) >= 4
            /\ LowerPrefix(s, 3) \in {<<99, 111, 109>>, <<108, 112, 116>>}
            /\ s[4] \in 49..57
            /\ (Len(s) = 4 \/ s[5] = 46)
    THEN 4
    ELSE 0

\* a variant that appends the underscore to the whole name
replace_device_name_appended(output) ==
    IF WINDOWS_DEVICE_NAME(output) = 0 THEN output ELSE output \o <<95>>

\* WINDOWS_DEVICE_NAME.replace_all(output, "${1}_${2}") (line 78)
replace_device_name(output) ==
    LET m == WINDOWS_DEVICE_NAME(output)
    IN IF m = 0 THEN output
       ELSE SubSeq(output, 1, m) \o <<95>> \o SubSeq(output, m + 1, Len(output))

\* --------------------------------- truncate_to_char_boundary (line 175-184)
RECURSIVE boundary_at_or_below(_, _)
boundary_at_or_below(s, max) ==
    IF is_char_boundary(s, max) THEN max ELSE boundary_at_or_below(s, max - 1)

\* a variant that cuts at the byte index without looking for a boundary
truncate_at_byte(s, max) ==
    IF max >= Len(s) THEN s ELSE SubSeq(s, 1, max)

truncate_to_char_boundary(s, max) ==
    IF max >= Len(s) THEN s
    ELSE SubSeq(s, 1, boundary_at_or_below(s, max))

\* ------------------------------- split_and_truncate_filename (line 148-171)
\* index of the last '.', 0 when there is none
LastDot(s) ==
    LET dots == {i \in 1..Len(s) : s[i] = 46}
    IN IF dots = {} THEN 0 ELSE CHOOSE i \in dots : \A j \in dots : j <= i

\* fname.rsplitn(2, '.') : <<stem, ext>>, ext empty when there is no dot
rsplit_stem_ext(fname) ==
    LET d == LastDot(fname)
    IN IF d = 0 THEN <<fname, <<>>>>
       ELSE <<SubSeq(fname, 1, d - 1), SubSeq(fname, d + 1, Len(fname))>>

split_and_truncate_filename(fname, max_bytes) ==
    LET parts == rsplit_stem_ext(fname)
        ext == truncate_to_char_boundary(parts[2], 10)
        stem_len == max_bytes - Len(ext) - 1
        stem == truncate_to_char_boundary(parts[1], stem_len)
    IN <<stem, ext>>

\* ------------------------------------------ truncate_filename (line 135-143)
truncate_filename(fname, max_bytes) ==
    IF Len(fname) <= max_bytes THEN fname
    ELSE LET se == split_and_truncate_filename(fname, max_bytes)
         IN se[1] \o <<46>> \o se[2]

\* ----------------------------------------- normalize_filename (line 67-87)
after_nfc(fname) == IF ~is_nfc(fname) THEN nfc(fname) ELSE fname

after_strip(fname) ==
    LET output == after_nfc(fname)
    IN IF \E i \in 1..Len(output) : disallowed_char(output[i])
       THEN SelectSeq(output, LAMBDA b : ~disallowed_char(b))
       ELSE output

after_device(fname) == replace_device_name(after_strip(fname))

normalize_filename(fname) == truncate_filename(after_device(fname), MAX_FILENAME_LENGTH)

\* the result is Cow::Borrowed: no step replaced the borrowed input
normalize_is_borrowed(fname) ==
    /\ is_nfc(fname)
    /\ \A i \in 1..Len(fname) : ~disallowed_char(fname[i])
    /\ WINDOWS_DEVICE_NAME(fname) = 0
    /\ Len(fname) <= MAX_FILENAME_LENGTH

\* ------------------------------ add_hash_suffix_to_file_stem (line 125-132)
HexDigit(n) == IF n < 10 THEN 48 + n ELSE 87 + n

\* hex::encode
hex_encode(hash) ==
    [i \in 1..(2 * Len(hash)) |->
        IF i % 2 = 1 THEN HexDigit(hash[(i + 1) \div 2] \div 16)
        ELSE HexDigit(hash[i \div 2] % 16)]

add_hash_suffix_to_file_stem(fname, hash) ==
    LET max_len == MAX_FILENAME_LENGTH - 20 - 1
        se == split_and_truncate_filename(fname, max_len)
    IN se[1] \o <<45>> \o hex_encode(hash) \o <<46>> \o se[2]

\* ------------------------------------------------ sha1_of_data (line 222-226)
\* SHA-1 is tabulated for the payloads of the source's tests.
Hello == <<104, 101, 108, 108, 111>>
Hello1 == <<104, 101, 108, 108, 111, 49>>

Payloads == {Hello, Hello1}

sha1_of_data(data) ==
    IF data = Hello
    THEN <<170, 244, 198, 29, 220, 197, 232, 162, 218, 190,
           222, 15, 59, 72, 44, 217, 174, 169, 67, 77>>
    ELSE <<136, 253, 213, 133, 18, 26, 76, 203, 61, 21,
           64, 82, 122, 238, 83, 167, 124, 119, 171, 184>>

Digests == {sha1_of_data(d) : d \in Payloads}

\* ------------------------------------------------------------ file system
None == <<>>

EmptyFolder == [n \in {} |-> <<>>]

\* folder.join(name) names the folder itself or its parent: opening it
\* succeeds but reading or writing it fails with an error other than NotFound
IsDirectoryPath(name) == name \in {<<>>, <<46>>, <<46, 46>>}

\* fs::write(path, data): creates the file or replaces its content
fs_write(dir, name, data) ==
    [n \in (DOMAIN dir) \cup {name} |-> IF n = name THEN data ELSE dir[n]]

\* existing_file_sha1 (line 187-198), for a path that is not a directory
existing_file_sha1(dir, name) ==
    IF name \in DOMAIN dir THEN sha1_of_data(dir[name]) ELSE None

\* ---------------------------- add_data_to_folder_uniquely (line 91-122)
\* a variant without the "same checksum, nothing to do" return
add_data_to_folder_uniquely_no_dedup(dir, desired_name, data, sha1) ==
    LET normalized_name == normalize_filename(desired_name)
        existing_file_hash == existing_file_sha1(dir, normalized_name)
    IN IF IsDirectoryPath(normalized_name)
       THEN [ok |-> FALSE, name |-> <<>>, folder |-> dir]
       ELSE IF existing_file_hash = None
       THEN [ok |-> TRUE, name |-> normalized_name,
             folder |-> fs_write(dir, normalized_name, data)]
       ELSE LET hashed_name == add_hash_suffix_to_file_stem(normalized_name, sha1)
            IN [ok |-> TRUE, name |-> hashed_name,
                folder |-> fs_write(dir, hashed_name, data)]

\* a variant that writes the normalized name whatever is on disk
add_data_to_folder_uniquely_overwrite(dir, desired_name, data, sha1) ==
    LET normalized_name == normalize_filename(desired_name)
    IN IF IsDirectoryPath(normalized_name)
       THEN [ok |-> FALSE, name |-> <<>>, folder |-> dir]
       ELSE [ok |-> TRUE, name |-> normalized_name,
             folder |-> fs_write(dir, normalized_name, data)]

add_data_to_folder_uniquely(dir, desired_name, data, sha1) ==
    LET normalized_name == normalize_filename(desired_name)
        existing_file_hash == existing_file_sha1(dir, normalized_name)
    IN IF IsDirectoryPath(normalized_name)
       THEN [ok |-> FALSE, name |-> <<>>, folder |-> dir]
       ELSE IF existing_file_hash = None
       THEN [ok |-> TRUE, name |-> normalized_name,
             folder |-> fs_write(dir, normalized_name, data)]
       ELSE IF existing_file_hash = sha1
       THEN [ok |-> TRUE, name |-> normalized_name, folder |-> dir]
       ELSE LET hashed_name == add_hash_suffix_to_file_stem(normalized_name, sha1)
            IN [ok |-> TRUE, name |-> hashed_name,
                folder |-> fs_write(dir, hashed_name, data)]

\* ---------------------------------- add_file_from_ankiweb (line 265-296)
\* AddedFile without its mtime; renamed_from is an Option<String>
NotRenamed == [some |-> FALSE, val |-> <<>>]

add_file_from_ankiweb(dir, fname, data) ==
    LET sha1 == sha1_of_data(data)
        normalized == normalize_filename(fname)
    IN IF normalize_is_borrowed(fname)
       THEN IF IsDirectoryPath(normalized)
            THEN [ok |-> FALSE, fname |-> <<>>, sha1 |-> sha1,
                  renamed_from |-> NotRenamed, folder |-> dir]
            ELSE [ok |-> TRUE, fname |-> normalized, sha1 |-> sha1,
                  renamed_from |-> NotRenamed,
                  folder |-> fs_write(dir, normalized, data)]
       ELSE LET r == add_data_to_folder_uniquely(dir, fname, data, sha1)
            IN IF ~r.ok
               THEN [ok |-> FALSE, fname |-> <<>>, sha1 |-> sha1,
                     renamed_from |-> NotRenamed, folder |-> dir]
               ELSE [ok |-> TRUE, fname |-> normalized, sha1 |-> sha1,
                     renamed_from |-> [some |-> TRUE, val |-> r.name],
                     folder |-> r.folder]

\* ------------------------------------------------------------------ inputs
\* "test.mp3", "te[st.mp3", "foo", "[" and the name "test.mp3" gets when it
\* collides with the payload "hello1": names a caller or a remote peer may ask for
TestMp3 == <<116, 101, 115, 116, 46, 109, 112, 51>>

DesiredNames ==
    {TestMp3,
     <<116, 101, 91, 115, 116, 46, 109, 112, 51>>,
     <<102, 111, 111>>,
     <<91>>}
    \cup {add_hash_suffix_to_file_stem(TestMp3, sha1_of_data(Hello1))}

\* the inputs of the tests at line 325-335 and 342
LongJpg == Repeat(<<120>>, MAX_FILENAME_LENGTH * 2) \o <<46, 106, 112, 103>>

ConJunk ==
    <<99, 111, 110, 46, 106, 112, 103, 91, 93, 62, 60, 58, 34, 47, 63, 42,
      94, 92, 124, 0, 13, 10>>

TestInputs ==
    {<<102, 111, 111, 46, 106, 112, 103>>,
     <<116, 101, 115, 116, 46, 106, 112, 103>>,
     ConJunk, LongJpg}

\* "", "con", "Lpt1", "nul[", "e[" U+0301, "e" U+0301, "cons", DEL
Prefixes ==
    {<<>>,
     <<99, 111, 110>>,
     <<76, 112, 116, 49>>,
     <<110, 117, 108, 91>>,
     <<101, 91, 204, 129>>,
     <<101, 204, 129>>,
     <<99, 111, 110, 115>>,
     <<127>>}

\* "x", U+00E9 (2 bytes), U+20AC (3 bytes)
FillChars == {<<120>>, <<195, 169>>, <<226, 130, 172>>}

\* "", ".jpg", ".", ".tar.gz", ".x" + 5 * U+00E9 (11 bytes), ".abcdefghijkl"
Suffixes ==
    {<<>>,
     <<46, 106, 112, 103>>,
     <<46>>,
     <<46, 116, 97, 114, 46, 103, 122>>,
     <<46, 120, 195, 169, 195, 169, 195, 169, 195, 169, 195, 169>>,
     <<46, 97, 98, 99, 100, 101, 102, 103, 104, 105, 106, 107, 108>>}

InputNames ==
    TestInputs \cup
    {p \o Repeat(c, n) \o s :
        p \in Prefixes, c \in FillChars, n \in 0..MaxFill, s \in Suffixes}

\* ------------------------------------------------------------------- state
VARIABLES
    fname,        \* the raw name given to normalize_filename
    pc,           \* which function has been applied to fname
    normalized,   \* normalize_filename(fname)
    twice,        \* normalize_filename(normalized)
    hashed,       \* add_hash_suffix_to_file_stem(normalized, hash)
    hash,         \* the digest given to add_hash_suffix_to_file_stem
    folder,       \* the media folder: file name -> content
    ncalls,       \* calls made on the folder so far
    prev,         \* the call before the last one
    last,         \* the last call: arguments, result and folder before it
    honest,       \* every add_data_to_folder_uniquely call so far was given sha1_of_data(data)
    only_unique   \* every call so far was add_data_to_folder_uniquely

vars == <<fname, pc, normalized, twice, hashed, hash,
          folder, ncalls, prev, last, honest, only_unique>>

normVars == <<fname, pc, normalized, twice, hashed, hash>>

folderVars == <<folder, ncalls, prev, last, honest, only_unique>>

NoCall ==
    [op |-> "none", fname |-> <<>>, data |-> <<>>, sha1 |-> <<>>, ok |-> FALSE,
     name |-> <<>>, renamed_from |-> NotRenamed, pre |-> EmptyFolder]

\* ------------------------------------------- the media folder (Spec)
Init ==
    /\ folder = EmptyFolder
    /\ ncalls = 0
    /\ prev = NoCall
    /\ last = NoCall
    /\ honest = TRUE
    /\ only_unique = TRUE
    /\ fname = <<>>
    /\ pc = "idle"
    /\ normalized = <<>>
    /\ twice = <<>>
    /\ hashed = <<>>
    /\ hash = <<>>

AddUnique(desired_name, data, sha1) ==
    /\ ncalls < MaxCalls
    /\ LET r == add_data_to_folder_uniquely(folder, desired_name, data, sha1)
       IN /\ folder' = r.folder
          /\ last' = [op |-> "add_unique", fname |-> desired_name, data |-> data,
                      sha1 |-> sha1, ok |-> r.ok, name |-> r.name,
                      renamed_from |-> NotRenamed, pre |-> folder]
    /\ prev' = last
    /\ ncalls' = ncalls + 1
    /\ honest' = (honest /\ sha1 = sha1_of_data(data))
    /\ UNCHANGED only_unique
    /\ UNCHANGED normVars

AddFromAnkiweb(name, data) ==
    /\ ncalls < MaxCalls
    /\ LET r == add_file_from_ankiweb(folder, name, data)
       IN /\ folder' = r.folder
          /\ last' = [op |-> "ankiweb", fname |-> name, data |-> data,
                      sha1 |-> r.sha1, ok |-> r.ok, name |-> r.fname,
                      renamed_from |-> r.renamed_from, pre |-> folder]
    /\ prev' = last
    /\ ncalls' = ncalls + 1
    /\ only_unique' = FALSE
    /\ UNCHANGED honest
    /\ UNCHANGED normVars

Next ==
    \/ \E n \in DesiredNames, d \in Payloads, h \in Digests : AddUnique(n, d, h)
    \/ \E n \in DesiredNames, d \in Payloads : AddFromAnkiweb(n, d)

Spec == Init /\ [][Next]_vars

\* ------------------------------------- the pure functions (NormSpec)
NormInit ==
    /\ fname \in InputNames
    /\ pc = "input"
    /\ normalized = <<>>
    /\ twice = <<>>
    /\ hashed = <<>>
    /\ hash = <<>>
    /\ folder = EmptyFolder
    /\ ncalls = 0
    /\ prev = NoCall
    /\ last = NoCall
    /\ honest = TRUE
    /\ only_unique = TRUE

Normalize ==
    /\ pc = "input"
    /\ normalized' = normalize_filename(fname)
    /\ pc' = "normalized"
    /\ UNCHANGED <<fname, twice, hashed, hash>>
    /\ UNCHANGED folderVars

Renormalize ==
    /\ pc = "normalized"
    /\ twice' = normalize_filename(normalized)
    /\ pc' = "renormalized"
    /\ UNCHANGED <<fname, normalized, hashed, hash>>
    /\ UNCHANGED folderVars

AddHashSuffix(h) ==
    /\ pc = "normalized"
    /\ hashed' = add_hash_suffix_to_file_stem(normalized, h)
    /\ hash' = h
    /\ pc' = "hashed"
    /\ UNCHANGED <<fname, normalized, twice>>
    /\ UNCHANGED folderVars

NormNext ==
    \/ Normalize
    \/ Renormalize
    \/ \E h \in Digests : AddHashSuffix(h)

NormSpec == NormInit /\ [][NormNext]_vars

\* ================================================================= claims
IsPrefixOf(a, b) == Len(a) <= Len(b) /\ a = SubSeq(b, 1, Len(a))

\* the collision case of the writer: the normalized name is on disk with
\* another digest than the one the call was given
Collides(call) ==
    LET n == normalize_filename(call.fname)
    IN /\ n \in DOMAIN call.pre
       /\ sha1_of_data(call.pre[n]) # call.sha1

\* two successive successful writer calls, the first on the empty folder,
\* each given the digest of its data
TwoAddsFromEmpty ==
    /\ prev.op = "add_unique" /\ last.op = "add_unique"
    /\ prev.pre = EmptyFolder
    /\ prev.ok /\ last.ok
    /\ prev.sha1 = sha1_of_data(prev.data)
    /\ last.sha1 = sha1_of_data(last.data)
    /\ prev.fname = last.fname

\* C1: in a folder reached by add_data_to_folder_uniquely calls that were
\* each given the digest of their data, a call whose normalized name is on
\* disk with a different digest leaves every file that was on disk with the
\* content it had.
C1_NeverOverwrites ==
    (/\ honest /\ only_unique
     /\ last.op = "add_unique" /\ last.ok
     /\ Collides(last))
    => \A n \in DOMAIN last.pre : n \in DOMAIN folder /\ folder[n] = last.pre[n]

\* C2: adding the same (name, data, digest) twice to an empty folder returns
\* the normalized name both times and leaves exactly one file; the second
\* call leaves the folder as it found it.
C2_DedupNoOp ==
    (TwoAddsFromEmpty /\ prev.data = last.data)
    => /\ prev.name = normalize_filename(prev.fname)
       /\ last.name = prev.name
       /\ DOMAIN folder = {last.name}
       /\ folder[last.name] = last.data
       /\ folder = last.pre

C2_Witness ==
    /\ TwoAddsFromEmpty /\ prev.data = last.data
    /\ Cardinality(DOMAIN folder) = 1

\* the name with '-' and the hex digest put between stem and extension
WithHashInserted(name, digest) ==
    LET d == LastDot(name)
    IN IF d = 0 THEN name \o <<45>> \o hex_encode(digest)
       ELSE SubSeq(name, 1, d - 1) \o <<45>> \o hex_encode(digest)
            \o SubSeq(name, d, Len(name))

\* C3: adding (name, A) then (name, B) with different digests to an empty
\* folder leaves exactly two files, the normalized name holding A and the
\* returned name holding B, and the returned name is the normalized name
\* with '-' and the 40 hex characters of B's digest between stem and
\* extension.
C3_CollisionSuffix ==
    (TwoAddsFromEmpty /\ prev.sha1 # last.sha1)
    => LET n == normalize_filename(prev.fname)
       IN /\ DOMAIN folder = {n, last.name}
          /\ Cardinality(DOMAIN folder) = 2
          /\ folder[n] = prev.data
          /\ folder[last.name] = last.data
          /\ last.name = WithHashInserted(n, last.sha1)

\* C4: after add_file_from_ankiweb succeeds, the record's fname names a file
\* on disk whose content is the ingested data and whose digest is the
\* record's digest.
C4_RecordNamesWrittenFile ==
    (last.op = "ankiweb" /\ last.ok)
    => /\ last.name \in DOMAIN folder
       /\ folder[last.name] = last.data
       /\ sha1_of_data(folder[last.name]) = last.sha1

\* the incoming name is already canonical
Canonical(name) == normalize_filename(name) = name

\* the target name held other content than the ingested data
TargetHeldOther(call) ==
    LET t == normalize_filename(call.fname)
    IN t \in DOMAIN call.pre /\ call.pre[t] # call.data

\* C5 as stated: in both branches of add_file_from_ankiweb, a file on disk
\* under the target name with other content than the ingested data is not
\* overwritten.
C5_BothBranchesSafe ==
    (last.op = "ankiweb" /\ last.ok /\ TargetHeldOther(last))
    => folder[normalize_filename(last.fname)]
         = last.pre[normalize_filename(last.fname)]

\* C5 amended: only the delegating branch keeps the file: for a name that is
\* not canonical, a file on disk under the normalized name with other
\* content than the ingested data keeps its content; for a canonical name
\* the file under that name holds the ingested data after the call.
C5_DelegationSafeDirectOverwrites ==
    (last.op = "ankiweb" /\ last.ok)
    => LET t == normalize_filename(last.fname)
       IN /\ (~Canonical(last.fname) /\ TargetHeldOther(last))
                => folder[t] = last.pre[t]
          /\ Canonical(last.fname)
                => (t \in DOMAIN folder /\ folder[t] = last.data)

C5_Witness ==
    /\ last.op = "ankiweb" /\ last.ok
    /\ ~Canonical(last.fname)
    /\ TargetHeldOther(last)
    /\ last.renamed_from.some
    /\ last.renamed_from.val # normalize_filename(last.fname)

\* C6: normalizing a normalized name changes nothing.
C6_NormalizeIdempotent ==
    pc = "renormalized" => twice = normalized

\* C7: a normalized name is at most 120 bytes of well-formed UTF-8; when the
\* name was truncated, its stem and extension are prefixes of the stem and
\* extension before truncation, each ending at a character boundary; 240 'x'
\* followed by ".jpg" gives 116 'x' followed by ".jpg".
C7_LengthAndBoundary ==
    pc # "input"
    => LET before == after_device(fname)
           was == rsplit_stem_ext(before)
           now == rsplit_stem_ext(normalized)
       IN /\ Len(normalized) <= MAX_FILENAME_LENGTH
          /\ ValidUtf8(normalized)
          /\ Len(before) > MAX_FILENAME_LENGTH
                => /\ IsPrefixOf(now[1], was[1]) /\ ValidUtf8(now[1])
                   /\ IsPrefixOf(now[2], was[2]) /\ ValidUtf8(now[2])
          /\ fname = LongJpg
                => /\ now[1] = Repeat(<<120>>, MAX_FILENAME_LENGTH - 4)
                   /\ now[2] = <<106, 112, 103>>

\* a truncation that had to step back from the byte limit to a boundary
C7_Witness ==
    /\ pc = "normalized"
    /\ ValidUtf8(fname)
    /\ Len(after_device(fname)) > MAX_FILENAME_LENGTH
    /\ Len(normalized) < MAX_FILENAME_LENGTH
    /\ \E i \in 1..Len(normalized) : IsContinuation(normalized[i])

\* CON, PRN, AUX, NUL, COM1-COM9, LPT1-LPT9
ReservedNames ==
    {<<99, 111, 110>>, <<112, 114, 110>>, <<97, 117, 120>>, <<110, 117, 108>>}
    \cup {<<99, 111, 109, d>> : d \in 49..57}
    \cup {<<108, 112, 116, d>> : d \in 49..57}

\* the part of the name before its first dot (the whole name without a dot)
BeforeFirstDot(name) ==
    LET dots == {i \in 1..Len(name) : name[i] = 46}
    IN IF dots = {} THEN name
       ELSE SubSeq(name, 1, (CHOOSE i \in dots : \A j \in dots : i <= j) - 1)

\* the whole name, or its part before the first dot, is a reserved name
IsReserved(name) == LowerPrefix(BeforeFirstDot(name), Len(BeforeFirstDot(name))) \in ReservedNames

\* C8: a normalized name is not reserved; when the name without its
\* disallowed characters is reserved, the underscore goes directly after
\* the device name; "con.jpg" followed by disallowed characters gives
\* "con_.jpg".
C8_DeviceNameEscaped ==
    pc # "input"
    => /\ ~IsReserved(normalized)
       /\ IsReserved(after_strip(fname))
             => LET s == after_strip(fname)
                    m == Len(BeforeFirstDot(s))
                IN normalized = truncate_filename(
                       SubSeq(s, 1, m) \o <<95>> \o SubSeq(s, m + 1, Len(s)),
                       MAX_FILENAME_LENGTH)
       /\ fname = ConJunk
             => normalized = <<99, 111, 110, 95, 46, 106, 112, 103>>

C8_Witness ==
    /\ pc = "normalized"
    /\ IsReserved(after_strip(fname))
    /\ LastDot(fname) # 0
    /\ fname # after_strip(fname)
    /\ ~IsReserved(normalized)

\* C9: a name without '.' is reassembled without a dot, by the truncation
\* step of normalize_filename and by add_hash_suffix_to_file_stem.
C9_NoTrailingDot ==
    /\ (/\ pc # "input"
        /\ LastDot(after_device(fname)) = 0
        /\ Len(after_device(fname)) > MAX_FILENAME_LENGTH)
       => /\ LastDot(normalized) = 0
          /\ IsPrefixOf(normalized, after_device(fname))
    /\ (pc = "hashed" /\ LastDot(normalized) = 0)
       => hashed = split_and_truncate_filename(normalized, MAX_FILENAME_LENGTH - 20 - 1)[1]
                   \o <<45>> \o hex_encode(hash)

\* C10: a hash-suffixed name is at most 120 bytes long.
C10_SuffixedNameFits ==
    pc = "hashed" => Len(hashed) <= MAX_FILENAME_LENGTH
====
